---- MODULE Spec2Model ----
(***************************************************************************)
(* Job lifecycle and persistence of the media-pipeline job tracker         *)
(* (src/app.py): the durable job index jobs.json, the artifact directory   *)
(* outputs/, and the five operations the interface binds to its buttons.   *)
(* Each operation runs to completion (load, mutate one record, save).      *)
(***************************************************************************)
EXTENDS Integers, Sequences, FiniteSets, TLC

\* ------------------------------------------------------------------ bounds
\* Longest pipeline a caller passes to create_job.
MaxPipeline == 2
\* generate_colab_links may be repeated for ever, each call appending a log
\* line; the model issues at most MaxHandoffs links per job.
MaxHandoffs == 1
\* Calls begun, over all threads, in a run of overlapping calls.
MaxCalls == 3

\* ------------------------------------------------------- program constants
OUTPUTS_DIR == "outputs"
GITHUB_USERNAME == "livinghappy247"
GITHUB_REPO == "take-command"

\* ----------------------------------------------------------- input domains
\* uuid4()[:8]: any 8 hex digits, drawn with no look at the store.
JobIds == {"a1b2c3d4", "e5f6a7b8"}
\* datetime.now().strftime("%Y%m%d_%H%M%S")
Stamps == {"20240101_120000"}
\* datetime.now().strftime("%H:%M:%S")
Clock == {"12:00:00"}
\* Output names a caller reports to mark_step_complete ("" = none).
OutputNames == {"", "output.mp4"}

\* The choices of the pipeline_steps checkbox group, then a name the notebook
\* table does not know.
StepChoices ==
    << "Voice Cloning & TTS", "Lip Sync & Emotions", "Split & Merge",
       "Audio Enhancement", "Video Enhancement", "Color Grade" >>

\* pipeline_steps as the caller passes it: None, or a list of step names
\* (here the first n choices, n <= MaxPipeline).
PipelineArgs ==
    {[is_none |-> TRUE, steps |-> <<>>]}
        \cup {[is_none |-> FALSE, steps |-> SubSeq(StepChoices, 1, n)] :
                n \in 0..MaxPipeline}

\* uploaded_file as the caller passes it: nothing (None or ""), or a path
\* carrying a .name.
UploadArgs ==
    { [given |-> FALSE, has_name |-> FALSE, name |-> ""],
      [given |-> TRUE,  has_name |-> TRUE,  name |-> "clip.mp4"] }

\* (voice_text, emotion, enhancement_type)
ParameterArgs ==
    { [voice_text |-> "", emotion |-> "neutral", enhancement_type |-> "basic"] }

\* The handler threads of the interface's server.
Threads == {"worker-1", "worker-2"}

\* pipeline_steps of the calls that overlap: the first choice alone.
OverlapPipelineArgs ==
    {[is_none |-> FALSE, steps |-> SubSeq(StepChoices, 1, Len(<<"step">>))]}

VARIABLES
    jobs_file,  \* jobs.json: [readable, data]; data maps job id -> job record
    outputs,    \* names of the files present in OUTPUTS_DIR
    ret,        \* the last call: operation, argument, result, whether it saved
    threads,    \* per handler thread: where its call stands, the jobs mapping
                \* it holds in memory, and what it is about to return
    calls       \* calls begun by the threads

vars == <<jobs_file, outputs, ret, threads, calls>>

\* ------------------------------------------------------------ return values
\* What a call hands back: kind names the result, value its variable part,
\* report the per-job table of get_job_status, saved whether save_jobs ran.
Result(op, arg, kind, value, saved) ==
    [op |-> op, arg |-> arg, kind |-> kind, value |-> value,
     report |-> <<>>, saved |-> saved]

\* ---------------------------------------------------------------- job store
\* load_jobs: the parsed file, or {} when it cannot be read or parsed.
load_jobs == IF jobs_file.readable THEN jobs_file.data ELSE <<>>

\* save_jobs: the whole file is rewritten with the mapping it is given.
save_jobs(jobs) == jobs_file' = [readable |-> TRUE, data |-> jobs]

\* jobs[job_id] = record  (dict assignment: inserts or replaces).
SetItem(jobs, job_id, record) == (job_id :> record) @@ jobs

\* ------------------------------------------------------------------ helpers
\* os.path.splitext(name)[1] on the names the callers upload.
splitext(name) ==
    CASE name = "clip.mp4" -> ".mp4"
      [] OTHER -> ""

\* file_extension of create_job.
file_extension(uploaded_file) ==
    IF uploaded_file.has_name THEN splitext(uploaded_file.name) ELSE ""

\* f"{job_id}_{timestamp}_input{file_extension}"
saved_filename(job_id, timestamp, uploaded_file) ==
    job_id \o "_" \o timestamp \o "_input" \o file_extension(uploaded_file)

\* os.path.join(OUTPUTS_DIR, name)
path_join(dir, name) == dir \o "/" \o name

\* os.path.exists(os.path.join(OUTPUTS_DIR, name))
path_exists(name) == name \in outputs

\* f"{time} - {message}"
log_line(time, message) == time \o " - " \o message

\* f"{job_id}_step_{current_step}_output"
placeholder(job_id, current_step) ==
    job_id \o "_step_" \o ToString(current_step) \o "_output"

\* notebook_map.get(step_name, "general_process.ipynb")
notebook_map(step_name) ==
    CASE step_name = "Voice Cloning & TTS" -> "voice_clone.ipynb"
      [] step_name = "Lip Sync & Emotions" -> "lip_sync.ipynb"
      [] step_name = "Split & Merge"       -> "split_merge.ipynb"
      [] step_name = "Audio Enhancement"   -> "audio_enhance.ipynb"
      [] step_name = "Video Enhancement"   -> "video_enhance.ipynb"
      [] OTHER                             -> "general_process.ipynb"

\* step_name.lower().replace(" ", "_") on the step names of the model.
step_param(step_name) ==
    CASE step_name = "Voice Cloning & TTS" -> "voice_cloning_&_tts"
      [] step_name = "Lip Sync & Emotions" -> "lip_sync_&_emotions"
      [] step_name = "Split & Merge"       -> "split_&_merge"
      [] step_name = "Audio Enhancement"   -> "audio_enhancement"
      [] step_name = "Video Enhancement"   -> "video_enhancement"
      [] step_name = "Color Grade"         -> "color_grade"
      [] OTHER                             -> step_name

\* colab_url: the notebook's address followed by the job's parameters.
colab_url(job_id, step_name, job) ==
    "https://colab.research.google.com/github/" \o GITHUB_USERNAME \o "/"
        \o GITHUB_REPO \o "/blob/main/notebooks/" \o notebook_map(step_name)
        \o "?job_id=" \o job_id
        \o "&step=" \o step_param(step_name)
        \o "&input_file=" \o job.files.current
        \o "&voice_text=" \o job.parameters.voice_text
        \o "&emotion=" \o job.parameters.emotion
        \o "&enhancement_type=" \o job.parameters.enhancement_type

\* new_job with files.current set to the upload's own name instead of the
\* name it was copied to.
new_job_original_name(job_id, timestamp, log_time, uploaded_file, pipeline_steps, parameters) ==
    [ id           |-> job_id,
      created      |-> timestamp,
      status       |-> "ready",
      current_step |-> 0,
      pipeline     |-> IF pipeline_steps.is_none THEN <<>> ELSE pipeline_steps.steps,
      files        |-> [input   |-> saved_filename(job_id, timestamp, uploaded_file),
                        current |-> uploaded_file.name],
      parameters   |-> parameters,
      step_outputs |-> <<>>,
      logs         |-> <<log_line(log_time, "Job created")>> ]

\* The record create_job stores under jobs[job_id].
new_job(job_id, timestamp, log_time, uploaded_file, pipeline_steps, parameters) ==
    [ id           |-> job_id,
      created      |-> timestamp,
      status       |-> "ready",
      current_step |-> 0,
      pipeline     |-> IF pipeline_steps.is_none THEN <<>> ELSE pipeline_steps.steps,
      files        |-> [input   |-> saved_filename(job_id, timestamp, uploaded_file),
                        current |-> saved_filename(job_id, timestamp, uploaded_file)],
      parameters   |-> parameters,
      step_outputs |-> <<>>,
      logs         |-> <<log_line(log_time, "Job created")>> ]

\* -------------------------------------------------------------------- state
\* A thread with no call under way.
idle_thread ==
    [pc |-> "idle", jobs |-> <<>>, dirty |-> FALSE,
     result |-> Result("start", "", "", "", FALSE)]

Init ==
    /\ jobs_file = [readable |-> TRUE, data |-> <<>>]
    /\ outputs = {}
    /\ ret = Result("start", "", "", "", FALSE)
    /\ threads = [p \in Threads |-> idle_thread]
    /\ calls = 0

\* --------------------------------------------------------------- operations
\* create_job without an upload: the early return.
create_job_no_upload ==
    /\ ret' = Result("create_job", "", "Please upload a file first!", "", FALSE)
    /\ UNCHANGED <<jobs_file, outputs>>

\* create_job without the early return on a missing upload.
create_job_unguarded(uploaded_file, pipeline_steps, parameters, job_id, timestamp, log_time, copy_ok) ==
    IF ~copy_ok
    THEN /\ ret' = Result("create_job", "", "raised OSError", "", FALSE)
         /\ UNCHANGED <<jobs_file, outputs>>
    ELSE /\ outputs' = outputs \cup {saved_filename(job_id, timestamp, uploaded_file)}
         /\ save_jobs(SetItem(load_jobs, job_id,
                new_job(job_id, timestamp, log_time, uploaded_file,
                        pipeline_steps, parameters)))
         /\ ret' = IF pipeline_steps.is_none
                   THEN Result("create_job", job_id, "raised TypeError", "", TRUE)
                   ELSE Result("create_job", job_id, "created successfully!",
                               job_id, TRUE)

\* create_job(uploaded_file, pipeline_steps, voice_text, emotion, enhancement_type)
\* job_id, timestamp and log_time are what uuid4 and the clock give; copy_ok is
\* whether shutil.copy2 could copy the upload (it raises when it cannot).
create_job(uploaded_file, pipeline_steps, parameters, job_id, timestamp, log_time, copy_ok) ==
    IF ~uploaded_file.given
    THEN create_job_no_upload
    ELSE IF ~copy_ok
    THEN /\ ret' = Result("create_job", "", "raised OSError", "", FALSE)
         /\ UNCHANGED <<jobs_file, outputs>>
    ELSE /\ outputs' = outputs \cup {saved_filename(job_id, timestamp, uploaded_file)}
         /\ save_jobs(SetItem(load_jobs, job_id,
                new_job(job_id, timestamp, log_time, uploaded_file,
                        pipeline_steps, parameters)))
         \* ' -> '.join(pipeline_steps) raises on None, after the save.
         /\ ret' = IF pipeline_steps.is_none
                   THEN Result("create_job", job_id, "raised TypeError", "", TRUE)
                   ELSE Result("create_job", job_id, "created successfully!",
                               job_id, TRUE)

\* get_job_status(): reads the store and formats one entry per job.
get_job_status ==
    /\ ret' = IF load_jobs = <<>>
              THEN Result("get_job_status", "", "No jobs found.", "", FALSE)
              ELSE [ Result("get_job_status", "", "status report", "", FALSE)
                       EXCEPT !.report =
                         [ j \in DOMAIN load_jobs |->
                             [ status   |-> load_jobs[j].status,
                               progress |-> <<load_jobs[j].current_step,
                                              Len(load_jobs[j].pipeline)>>,
                               created  |-> load_jobs[j].created ] ] ]
    /\ UNCHANGED <<jobs_file, outputs>>

\* job_not_found with the store written back before the return.
job_not_found_saving(op, job_id) ==
    /\ save_jobs(load_jobs)
    /\ ret' = Result(op, job_id, "Job not found!", "", TRUE)
    /\ UNCHANGED outputs

\* if job_id not in jobs: return "Job not found!"
job_not_found(op, job_id) ==
    /\ ret' = Result(op, job_id, "Job not found!", "", FALSE)
    /\ UNCHANGED <<jobs_file, outputs>>

\* if current_step >= len(pipeline)
all_steps_done(job) == job.current_step >= Len(job.pipeline)

\* link_issued that marks the job as being processed.
link_issued_processing(job, step_name, log_time) ==
    [job EXCEPT
       !.status = "processing",
       !.logs   = Append(@, log_line(log_time, "Colab link generated for " \o step_name))]

\* link_issued that also moves the job to its next step.
link_issued_advancing(job, step_name, log_time) ==
    [job EXCEPT
       !.status = "waiting",
       !.current_step = @ + 1,
       !.logs   = Append(@, log_line(log_time, "Colab link generated for " \o step_name))]

\* The record generate_colab_links leaves for a job at step step_name.
link_issued(job, step_name, log_time) ==
    [job EXCEPT
       !.status = "waiting",
       !.logs   = Append(@, log_line(log_time, "Colab link generated for " \o step_name))]

\* generate_colab_links that saves the record of its own job alone.
generate_colab_links_alone(job_id, log_time) ==
    LET jobs == load_jobs IN
    IF job_id \notin DOMAIN jobs
    THEN job_not_found("generate_colab_links", job_id)
    ELSE
    LET job == jobs[job_id] IN
    IF all_steps_done(job)
    THEN /\ ret' = Result("generate_colab_links", job_id,
                          "All steps completed for this job!", "", FALSE)
         /\ UNCHANGED <<jobs_file, outputs>>
    ELSE
    LET step_name == job.pipeline[job.current_step + 1] IN
    /\ save_jobs(SetItem(<<>>, job_id, link_issued(job, step_name, log_time)))
    /\ ret' = Result("generate_colab_links", job_id, "instructions",
                     colab_url(job_id, step_name, job), TRUE)
    /\ UNCHANGED outputs

\* generate_colab_links(job_id); log_time is the clock's reading.
generate_colab_links(job_id, log_time) ==
    LET jobs == load_jobs IN
    IF job_id \notin DOMAIN jobs
    THEN job_not_found("generate_colab_links", job_id)
    ELSE
    LET job == jobs[job_id] IN
    IF all_steps_done(job)
    THEN /\ ret' = Result("generate_colab_links", job_id,
                          "All steps completed for this job!", "", FALSE)
         /\ UNCHANGED <<jobs_file, outputs>>
    ELSE
    LET step_name == job.pipeline[job.current_step + 1] IN
    /\ save_jobs(SetItem(jobs, job_id, link_issued(job, step_name, log_time)))
    /\ ret' = Result("generate_colab_links", job_id, "instructions",
                     colab_url(job_id, step_name, job), TRUE)
    /\ UNCHANGED outputs

\* step_outputs[step_name] = value  (dict assignment).
SetOutput(step_outputs, step_name, value) == (step_name :> value) @@ step_outputs

\* already_completed that logs the call and saves.
already_completed_logging(job_id) ==
    /\ save_jobs(SetItem(load_jobs, job_id,
           [load_jobs[job_id] EXCEPT !.logs = Append(@, "Job already completed!")]))
    /\ ret' = Result("mark_step_complete", job_id, "Job already completed!", "", TRUE)
    /\ UNCHANGED outputs

\* mark_step_complete on a job that is already at the end of its pipeline.
already_completed(job_id) ==
    /\ ret' = Result("mark_step_complete", job_id, "Job already completed!", "", FALSE)
    /\ UNCHANGED <<jobs_file, outputs>>

\* step_completed with files.current set to the placeholder when the call
\* named no output.
step_completed_placeholder(job, job_id, output_filename, log_time) ==
    LET current_step == job.current_step
        pipeline     == job.pipeline
        step_name    == pipeline[current_step + 1]
        produced     == IF output_filename # "" THEN output_filename
                        ELSE placeholder(job_id, current_step)
        stepped      == [job EXCEPT
                           !.step_outputs = SetOutput(@, step_name, produced),
                           !.current_step = @ + 1,
                           !.logs = Append(@, log_line(log_time, "Completed " \o step_name)),
                           !.files.current = produced]
    IN  IF stepped.current_step >= Len(pipeline)
        THEN [stepped EXCEPT
                !.status = "completed",
                !.logs = Append(@, log_line(log_time, "All steps completed!"))]
        ELSE [stepped EXCEPT !.status = "ready"]

\* The record mark_step_complete leaves for a job with a step still to run.
step_completed(job, job_id, output_filename, log_time) ==
    LET current_step == job.current_step
        pipeline     == job.pipeline
        step_name    == pipeline[current_step + 1]
        stepped      == [job EXCEPT
                           !.step_outputs = SetOutput(@, step_name,
                               IF output_filename # "" THEN output_filename
                               ELSE placeholder(job_id, current_step)),
                           !.current_step = @ + 1,
                           !.logs = Append(@, log_line(log_time, "Completed " \o step_name)),
                           !.files.current = IF output_filename # ""
                                             THEN output_filename ELSE @]
    IN  IF stepped.current_step >= Len(pipeline)
        THEN [stepped EXCEPT
                !.status = "completed",
                !.logs = Append(@, log_line(log_time, "All steps completed!"))]
        ELSE [stepped EXCEPT !.status = "ready"]

\* mark_step_complete(job_id, output_filename); log_time is the clock's reading.
mark_step_complete(job_id, output_filename, log_time) ==
    LET jobs == load_jobs IN
    IF job_id \notin DOMAIN jobs
    THEN job_not_found("mark_step_complete", job_id)
    ELSE
    LET job == jobs[job_id] IN
    IF all_steps_done(job)
    THEN already_completed(job_id)
    ELSE
    LET updated == step_completed(job, job_id, output_filename, log_time) IN
    /\ save_jobs(SetItem(jobs, job_id, updated))
    /\ ret' = IF updated.status = "completed"
              THEN Result("mark_step_complete", job_id, "completed successfully!",
                          updated.files.current, TRUE)
              ELSE Result("mark_step_complete", job_id, "Step completed! Next",
                          updated.pipeline[updated.current_step + 1], TRUE)
    /\ UNCHANGED outputs

\* download_result without the os.path.exists test.
download_result_unchecked(job_id) ==
    LET jobs == load_jobs IN
    /\ ret' = IF job_id \notin DOMAIN jobs
              THEN Result("download_result", job_id, "None", "", FALSE)
              ELSE IF jobs[job_id].status # "completed"
              THEN Result("download_result", job_id, "None", "", FALSE)
              ELSE Result("download_result", job_id, "path",
                          path_join(OUTPUTS_DIR, jobs[job_id].files.current), FALSE)
    /\ UNCHANGED <<jobs_file, outputs>>

\* download_result(job_id): a path into OUTPUTS_DIR, or None.
download_result(job_id) ==
    LET jobs == load_jobs IN
    /\ ret' = IF job_id \notin DOMAIN jobs
              THEN Result("download_result", job_id, "None", "", FALSE)
              ELSE IF jobs[job_id].status # "completed"
              THEN Result("download_result", job_id, "None", "", FALSE)
              ELSE IF path_exists(jobs[job_id].files.current)
              THEN Result("download_result", job_id, "path",
                          path_join(OUTPUTS_DIR, jobs[job_id].files.current), FALSE)
              ELSE Result("download_result", job_id, "None", "", FALSE)
    /\ UNCHANGED <<jobs_file, outputs>>

\* ------------------------------------------------------------ specification
\* The buttons of create_interface, pressed one at a time.
CreateJob ==
    /\ UNCHANGED <<threads, calls>>
    /\ \E uploaded_file \in UploadArgs, copy_ok \in BOOLEAN :
        IF uploaded_file.given /\ copy_ok
        THEN \E pipeline_steps \in PipelineArgs, parameters \in ParameterArgs,
                job_id \in JobIds, timestamp \in Stamps, log_time \in Clock :
                 create_job(uploaded_file, pipeline_steps, parameters, job_id,
                            timestamp, log_time, copy_ok)
        \* A call that returns or raises before it stores anything does the
        \* same whatever its other arguments are: it is taken once.
        ELSE LET pipeline_steps == CHOOSE p \in PipelineArgs : TRUE
                 parameters     == CHOOSE p \in ParameterArgs : TRUE
                 job_id         == CHOOSE j \in JobIds : TRUE
                 timestamp      == CHOOSE t \in Stamps : TRUE
                 log_time       == CHOOSE t \in Clock : TRUE
             IN  create_job(uploaded_file, pipeline_steps, parameters, job_id,
                            timestamp, log_time, copy_ok)

GetAllStatuses == get_job_status /\ UNCHANGED <<threads, calls>>

\* A job's log holds its creation line, one line per completed step and one
\* per link issued: the guard stops issuing links at MaxHandoffs per job.
GenerateStepHandoff ==
    /\ UNCHANGED <<threads, calls>>
    /\ \E job_id \in JobIds, log_time \in Clock :
        /\ (job_id \in DOMAIN load_jobs
              /\ load_jobs[job_id].current_step < Len(load_jobs[job_id].pipeline))
             => Len(load_jobs[job_id].logs) - 1 - load_jobs[job_id].current_step
                  < MaxHandoffs
        /\ generate_colab_links(job_id, log_time)

AdvanceStep ==
    /\ UNCHANGED <<threads, calls>>
    /\ \E job_id \in JobIds, output_filename \in OutputNames, log_time \in Clock :
        mark_step_complete(job_id, output_filename, log_time)

DownloadResult ==
    /\ UNCHANGED <<threads, calls>>
    /\ \E job_id \in JobIds : download_result(job_id)

Next ==
    \/ CreateJob
    \/ GetAllStatuses
    \/ GenerateStepHandoff
    \/ AdvanceStep
    \/ DownloadResult

Spec == Init /\ [][Next]_vars

\* The operator's mark_step_complete calls on job job_id.
AdvanceStepOn(job_id) ==
    /\ UNCHANGED <<threads, calls>>
    /\ \E output_filename \in OutputNames, log_time \in Clock :
          mark_step_complete(job_id, output_filename, log_time)

\* Calls one at a time, with an operator who keeps reporting steps complete
\* on every job id.
FairSpec ==
    /\ Init
    /\ [][Next]_vars
    /\ \A job_id \in JobIds : WF_vars(AdvanceStepOn(job_id))

\* ------------------------------------------------- calls that overlap in time
\* The server runs each call of a handler in a thread of its own.  A handler
\* that saves goes through four points: it loads the store and changes its own
\* copy of the mapping, save_jobs opens the file for writing (which empties
\* it), json.dump writes the copy, and the handler returns.

\* Thread p can take a new call.
can_begin(p) == threads[p].pc \in {"idle", "returned"} /\ calls < MaxCalls

\* Thread p holds the mapping jobs, about to save it and then return result.
holds(p, jobs, result) ==
    /\ threads' = [threads EXCEPT
                     ![p] = [pc |-> "loaded", jobs |-> jobs, dirty |-> FALSE,
                             result |-> result]]
    /\ UNCHANGED <<jobs_file, ret>>

\* Thread p returns result without saving.
returns(p, result) ==
    /\ threads' = [threads EXCEPT
                     ![p] = [pc |-> "returned", jobs |-> <<>>, dirty |-> FALSE,
                             result |-> result]]
    /\ ret' = result
    /\ UNCHANGED jobs_file

\* create_job up to its call of save_jobs: the copy of the upload, load_jobs
\* and the new record put into the loaded mapping.
begin_create_job(p, uploaded_file, pipeline_steps, parameters, job_id, timestamp, log_time) ==
    /\ can_begin(p)
    /\ calls' = calls + 1
    /\ outputs' = outputs \cup {saved_filename(job_id, timestamp, uploaded_file)}
    /\ holds(p, SetItem(load_jobs, job_id,
                        new_job(job_id, timestamp, log_time, uploaded_file,
                                pipeline_steps, parameters)),
             Result("create_job", job_id, "created successfully!", job_id, TRUE))

\* generate_colab_links up to its call of save_jobs, or to its early return.
begin_generate_colab_links(p, job_id, log_time) ==
    /\ can_begin(p)
    /\ calls' = calls + 1
    /\ UNCHANGED outputs
    /\ LET jobs == load_jobs IN
       IF job_id \notin DOMAIN jobs
       THEN returns(p, Result("generate_colab_links", job_id, "Job not found!",
                              "", FALSE))
       ELSE
       LET job == jobs[job_id] IN
       IF all_steps_done(job)
       THEN returns(p, Result("generate_colab_links", job_id,
                              "All steps completed for this job!", "", FALSE))
       ELSE
       LET step_name == job.pipeline[job.current_step + 1] IN
       holds(p, SetItem(jobs, job_id, link_issued(job, step_name, log_time)),
             Result("generate_colab_links", job_id, "instructions",
                    colab_url(job_id, step_name, job), TRUE))

\* mark_step_complete up to its call of save_jobs, or to its early return.
begin_mark_step_complete(p, job_id, output_filename, log_time) ==
    /\ can_begin(p)
    /\ calls' = calls + 1
    /\ UNCHANGED outputs
    /\ LET jobs == load_jobs IN
       IF job_id \notin DOMAIN jobs
       THEN returns(p, Result("mark_step_complete", job_id, "Job not found!",
                              "", FALSE))
       ELSE
       LET job == jobs[job_id] IN
       IF all_steps_done(job)
       THEN returns(p, Result("mark_step_complete", job_id,
                              "Job already completed!", "", FALSE))
       ELSE
       LET updated == step_completed(job, job_id, output_filename, log_time) IN
       holds(p, SetItem(jobs, job_id, updated),
             IF updated.status = "completed"
             THEN Result("mark_step_complete", job_id, "completed successfully!",
                         updated.files.current, TRUE)
             ELSE Result("mark_step_complete", job_id, "Step completed! Next",
                         updated.pipeline[updated.current_step + 1], TRUE))

\* open(JOBS_FILE, "w"): the file is emptied, and until something is written
\* to it load_jobs cannot parse it.
open_jobs_file(p) ==
    /\ threads[p].pc = "loaded"
    /\ threads' = [threads EXCEPT ![p].pc = "opened"]
    /\ jobs_file' = [readable |-> FALSE, data |-> <<>>]
    /\ UNCHANGED <<outputs, ret, calls>>

\* The threads as dump by p leaves them: p returns, and a thread that has the
\* file open too will write over what p wrote.
after_dump(p) ==
    [q \in Threads |->
        IF q = p
        THEN [threads[p] EXCEPT !.pc = "returned", !.jobs = <<>>, !.dirty = FALSE]
        ELSE IF threads[q].pc = "opened"
             THEN [threads[q] EXCEPT !.dirty = TRUE]
             ELSE threads[q]]

\* dump_jobs that reads the file again and puts only the record of its own
\* call into what it finds.
dump_jobs_merging(p) ==
    /\ threads[p].pc = "opened"
    /\ LET job_id == threads[p].result.arg IN
       jobs_file' = [readable |-> TRUE,
                     data |-> SetItem(load_jobs, job_id, threads[p].jobs[job_id])]
    /\ threads' = after_dump(p)
    /\ ret' = threads[p].result
    /\ UNCHANGED <<outputs, calls>>

\* json.dump(jobs, f) and the handler's return: the file holds the mapping of
\* thread p.  When another thread wrote through its own handle since p opened
\* the file, the bytes of the two writes lie over each other: the file is p's
\* text when that is the longer one, and text that does not parse otherwise.
dump_jobs(p) ==
    /\ threads[p].pc = "opened"
    /\ \/ jobs_file' = [readable |-> TRUE, data |-> threads[p].jobs]
       \/ /\ threads[p].dirty
          /\ jobs_file' = [readable |-> FALSE, data |-> <<>>]
    /\ threads' = after_dump(p)
    /\ ret' = threads[p].result
    /\ UNCHANGED <<outputs, calls>>

ThreadCreateJob(p) ==
    \E uploaded_file \in {u \in UploadArgs : u.given},
       pipeline_steps \in OverlapPipelineArgs, parameters \in ParameterArgs,
       job_id \in JobIds, timestamp \in Stamps, log_time \in Clock :
        begin_create_job(p, uploaded_file, pipeline_steps, parameters, job_id,
                         timestamp, log_time)

ThreadGenerateStepHandoff(p) ==
    \E job_id \in JobIds, log_time \in Clock :
        begin_generate_colab_links(p, job_id, log_time)

ThreadAdvanceStep(p) ==
    \E job_id \in JobIds, output_filename \in OutputNames, log_time \in Clock :
        begin_mark_step_complete(p, job_id, output_filename, log_time)

ThreadOpen(p) == open_jobs_file(p)

ThreadDump(p) == dump_jobs(p)

NextConcurrent ==
    \E p \in Threads :
        \/ ThreadCreateJob(p)
        \/ ThreadGenerateStepHandoff(p)
        \/ ThreadAdvanceStep(p)
        \/ ThreadOpen(p)
        \/ ThreadDump(p)

SpecConcurrent == Init /\ [][NextConcurrent]_vars

\* ------------------------------------------------------------------- claims
\* C1: in every reachable state, every job of the store has status
\* "completed" if and only if its current_step equals the length of its
\* pipeline (a job created with an empty or missing pipeline included).
C1_CompletedIffAtEnd ==
    \A j \in DOMAIN load_jobs :
        (load_jobs[j].status = "completed")
            <=> (load_jobs[j].current_step = Len(load_jobs[j].pipeline))

\* C2: across every call of every operation, the current_step of the job
\* stored under an id never decreases, and it stays within
\* 0 .. len(pipeline).
C2_CurrentStepMonotone ==
    [][ \A j \in DOMAIN load_jobs :
          /\ j \in DOMAIN load_jobs'
          /\ load_jobs'[j].current_step >= load_jobs[j].current_step
          /\ load_jobs'[j].current_step >= 0
          /\ load_jobs'[j].current_step <= Len(load_jobs'[j].pipeline) ]_vars

\* C3 as stated: the call of mark_step_complete that completes the last step
\* of a job (the len(pipeline)-th successful call since its creation) leaves
\* status "completed" and files.current equal to the output name it was
\* given, or to the placeholder {job_id}_step_{current_step}_output of that
\* step when it was given none.
C3_FinalCurrentOrPlaceholder ==
    [][ \A j \in JobIds, out \in OutputNames, t \in Clock :
          ( /\ j \in DOMAIN load_jobs
            /\ load_jobs[j].current_step + 1 = Len(load_jobs[j].pipeline)
            /\ mark_step_complete(j, out, t) )
          => /\ load_jobs'[j].status = "completed"
             /\ load_jobs'[j].files.current =
                  IF out # "" THEN out
                  ELSE placeholder(j, load_jobs[j].current_step) ]_vars

\* C3 amended: the call of mark_step_complete that completes the last step of
\* a job leaves status "completed", current_step = len(pipeline), and
\* files.current equal to the output name it was given, or unchanged when it
\* was given none (the placeholder goes to step_outputs only).
C3_FinalCurrentOrUnchanged ==
    [][ \A j \in JobIds, out \in OutputNames, t \in Clock :
          ( /\ j \in DOMAIN load_jobs
            /\ load_jobs[j].current_step + 1 = Len(load_jobs[j].pipeline)
            /\ mark_step_complete(j, out, t) )
          => /\ load_jobs'[j].status = "completed"
             /\ load_jobs'[j].current_step = Len(load_jobs'[j].pipeline)
             /\ load_jobs'[j].files.current =
                  IF out # "" THEN out ELSE load_jobs[j].files.current ]_vars

\* A two-step job completed by a final call that named no output: its last
\* step's output is the placeholder and files.current is still the name the
\* first call gave.
C3_Witness ==
    /\ ret.op = "mark_step_complete"
    /\ ret.kind = "completed successfully!"
    /\ LET job == load_jobs[ret.arg] IN
         /\ job.status = "completed"
         /\ Len(job.pipeline) = 2
         /\ job.step_outputs[job.pipeline[2]] = placeholder(ret.arg, 1)
         /\ job.files.current = "output.mp4"

\* C4: mark_step_complete on a job whose current_step >= len(pipeline)
\* returns the one "already completed" result, whatever its arguments, and
\* changes neither the job index (no save, no log line) nor the artifacts.
C4_AdvanceAtEndIsNoOp ==
    [][ \A j \in JobIds, out \in OutputNames, t \in Clock :
          ( /\ j \in DOMAIN load_jobs
            /\ load_jobs[j].current_step >= Len(load_jobs[j].pipeline)
            /\ mark_step_complete(j, out, t) )
          => /\ ret' = [op |-> "mark_step_complete", arg |-> j,
                        kind |-> "Job already completed!", value |-> "",
                        report |-> <<>>, saved |-> FALSE]
             /\ jobs_file' = jobs_file
             /\ outputs' = outputs ]_vars

\* mark_step_complete has just been called on a completed job.
C4_Witness ==
    /\ ret.op = "mark_step_complete"
    /\ ret.kind = "Job already completed!"
    /\ load_jobs[ret.arg].status = "completed"

\* C5: in every reachable state, every job whose status is "completed" or
\* "waiting" has a files.current that names a file present in OUTPUTS_DIR.
C5_CurrentArtifactExists ==
    \A j \in DOMAIN load_jobs :
        load_jobs[j].status \in {"completed", "waiting"}
            => load_jobs[j].files.current \in outputs

\* C6: download_result(job_id) returns the path of files.current in
\* OUTPUTS_DIR exactly when the job exists, its status is "completed" and that
\* file is present; in every other case it returns None.
C6_DownloadIffCompletedAndPresent ==
    ret.op = "download_result" =>
        LET j == ret.arg IN
        IF /\ j \in DOMAIN load_jobs
           /\ load_jobs[j].status = "completed"
           /\ load_jobs[j].files.current \in outputs
        THEN /\ ret.kind = "path"
             /\ ret.value = OUTPUTS_DIR \o "/" \o load_jobs[j].files.current
        ELSE /\ ret.kind = "None"
             /\ ret.value = ""

\* download_result has just returned a path for a completed job.
C6_Witness ==
    /\ ret.op = "download_result"
    /\ ret.kind = "path"
    /\ load_jobs[ret.arg].status = "completed"

\* C7: generate_colab_links on a job with current_step < len(pipeline) sets
\* its status to "waiting" and appends exactly one log line, leaving its
\* current_step, pipeline, files, parameters and step_outputs as they were; on
\* a job with current_step >= len(pipeline) it changes nothing in the store.
C7_HandoffFrame ==
    [][ \A j \in JobIds, t \in Clock :
          (j \in DOMAIN load_jobs /\ generate_colab_links(j, t))
          => LET old == load_jobs[j]
                 new == load_jobs'[j]
             IN  IF old.current_step < Len(old.pipeline)
                 THEN /\ new.status = "waiting"
                      /\ Len(new.logs) = Len(old.logs) + 1
                      /\ SubSeq(new.logs, 1, Len(old.logs)) = old.logs
                      /\ new.current_step = old.current_step
                      /\ new.pipeline = old.pipeline
                      /\ new.files = old.files
                      /\ new.parameters = old.parameters
                      /\ new.step_outputs = old.step_outputs
                 ELSE jobs_file' = jobs_file ]_vars

\* A link has just been issued for the second step of a job.
C7_Witness ==
    /\ ret.op = "generate_colab_links"
    /\ ret.kind = "instructions"
    /\ load_jobs[ret.arg].status = "waiting"
    /\ load_jobs[ret.arg].current_step = 1

\* C8: create_job called without an upload returns the "please upload"
\* message and leaves the job index (no save) and OUTPUTS_DIR unchanged.
C8_NoUploadNoMutation ==
    [][ \A up \in UploadArgs, pl \in PipelineArgs, pa \in ParameterArgs,
           j \in JobIds, ts \in Stamps, t \in Clock, ok \in BOOLEAN :
          (~up.given /\ create_job(up, pl, pa, j, ts, t, ok))
          => /\ ret'.kind = "Please upload a file first!"
             /\ ~ret'.saved
             /\ jobs_file' = jobs_file
             /\ outputs' = outputs ]_vars

\* create_job has just refused a call without an upload, with a job stored.
C8_Witness ==
    /\ ret.op = "create_job"
    /\ ret.kind = "Please upload a file first!"
    /\ load_jobs # <<>>

\* C9: generate_colab_links and mark_step_complete called with an id that is
\* not in the store return "Job not found!" and leave the job index unchanged:
\* no record is created and nothing is saved.
C9_UnknownIdNoMutation ==
    [][ \A j \in JobIds :
          j \notin DOMAIN load_jobs =>
            /\ \A t \in Clock :
                 generate_colab_links(j, t)
                 => /\ ret'.kind = "Job not found!"
                    /\ ~ret'.saved
                    /\ jobs_file' = jobs_file
            /\ \A out \in OutputNames, t \in Clock :
                 mark_step_complete(j, out, t)
                 => /\ ret'.kind = "Job not found!"
                    /\ ~ret'.saved
                    /\ jobs_file' = jobs_file ]_vars

\* An operation has just reported an unknown id while another job is stored.
C9_Witness ==
    /\ ret.op \in {"generate_colab_links", "mark_step_complete"}
    /\ ret.kind = "Job not found!"
    /\ ret.arg \notin DOMAIN load_jobs
    /\ load_jobs # <<>>

\* C10: a create_job call that goes through (it saved the job index) stores,
\* under the id it drew, a record with current_step = 0, status "ready",
\* files.input = files.current = the name the upload was copied to, empty
\* step_outputs and a log of the one line "Job created"; the copy is in
\* OUTPUTS_DIR under that name; no other record of the store changes.
C10_CreateJobRecord ==
    [][ (ret'.op = "create_job" /\ ret'.saved)
          => LET j == ret'.arg
                 r == load_jobs'[j]
             IN  /\ DOMAIN load_jobs' = DOMAIN load_jobs \cup {j}
                 /\ \A k \in DOMAIN load_jobs \ {j} : load_jobs'[k] = load_jobs[k]
                 /\ r.id = j
                 /\ r.current_step = 0
                 /\ r.status = "ready"
                 /\ r.files.input = r.files.current
                 /\ r.files.input \in outputs'
                 /\ outputs' = outputs \cup {r.files.input}
                 /\ r.step_outputs = <<>>
                 /\ \E t \in Clock : r.logs = << t \o " - Job created" >> ]_vars

\* create_job has just stored a job.
C10_Witness ==
    /\ ret.op = "create_job"
    /\ ret.kind = "created successfully!"
    /\ ret.arg \in DOMAIN load_jobs
    /\ Len(load_jobs[ret.arg].logs) = 1
    /\ load_jobs[ret.arg].files.current \in outputs

\* s is an initial part of t.
IsPrefix(s, t) == Len(s) <= Len(t) /\ SubSeq(t, 1, Len(s)) = s

\* C11: across every call of every operation, the logs of the job stored
\* under an id are an initial part of its logs afterwards: no line is
\* dropped, moved or rewritten.
C11_LogsAppendOnly ==
    [][ \A j \in DOMAIN load_jobs :
          /\ j \in DOMAIN load_jobs'
          /\ IsPrefix(load_jobs[j].logs, load_jobs'[j].logs) ]_vars

\* C12: across every call of every operation, every id of the store stays
\* in the store, and the record under it is not replaced by another job's:
\* the fields fixed at creation stay, and its progress and logs are only
\* added to.
C12_RecordsKept ==
    [][ \A j \in DOMAIN load_jobs :
          /\ j \in DOMAIN load_jobs'
          /\ load_jobs'[j].id = load_jobs[j].id
          /\ load_jobs'[j].created = load_jobs[j].created
          /\ load_jobs'[j].pipeline = load_jobs[j].pipeline
          /\ load_jobs'[j].files.input = load_jobs[j].files.input
          /\ load_jobs'[j].parameters = load_jobs[j].parameters
          /\ load_jobs'[j].current_step >= load_jobs[j].current_step
          /\ IsPrefix(load_jobs[j].logs, load_jobs'[j].logs) ]_vars

\* C13: when calls overlap, every change of the store is either a handler
\* opening the file, which empties it, or a handler writing the whole mapping
\* it loaded earlier with its own change in it (or text that does not parse,
\* when two writes overlap): nothing another call saved in between is merged
\* in, so the writer that comes last wins.
C13_LastWriterWins ==
    [][ jobs_file' # jobs_file =>
          \E p \in Threads :
             \/ /\ threads[p].pc = "loaded"
                /\ threads'[p].pc = "opened"
                /\ ~jobs_file'.readable
             \/ /\ threads[p].pc = "opened"
                /\ threads'[p].pc = "returned"
                /\ \/ jobs_file' = [readable |-> TRUE, data |-> threads[p].jobs]
                   \/ ~jobs_file'.readable ]_vars

\* Two calls overlapped, both have returned, the store reads well, and a job
\* whose create_job call reported success is not in it: its update was lost
\* without any error.
C13_Witness ==
    /\ \A q \in Threads : threads[q].pc = "returned"
    /\ jobs_file.readable
    /\ \E p \in Threads :
          /\ threads[p].result.kind = "created successfully!"
          /\ threads[p].result.arg \notin DOMAIN load_jobs

\* The step is a call of mark_step_complete on job j that saved.
advanced(j) ==
    /\ ret'.op = "mark_step_complete"
    /\ ret'.arg = j
    /\ ret'.saved

\* C14: a call of mark_step_complete on a job at step k below the end of its
\* pipeline records, under the name of step k, the output name it was given or
\* the placeholder, moves current_step to k + 1, sets files.current only when
\* it was given an output name, and leaves the status completed when k + 1 is
\* the pipeline's length and ready otherwise; and no other call of any
\* operation changes the current_step stored under an id.
C14_AdvanceStepEffect ==
    [][ \A j \in DOMAIN load_jobs :
          LET job == load_jobs[j]
              k   == job.current_step
          IN  IF advanced(j)
              THEN /\ k < Len(job.pipeline)
                   /\ \E output_filename \in OutputNames :
                        LET after == load_jobs'[j] IN
                        /\ after.step_outputs =
                             SetOutput(job.step_outputs, job.pipeline[k + 1],
                                       IF output_filename # "" THEN output_filename
                                       ELSE placeholder(j, k))
                        /\ after.current_step = k + 1
                        /\ after.files.current =
                             IF output_filename # "" THEN output_filename
                             ELSE job.files.current
                        /\ after.status =
                             IF k + 1 = Len(job.pipeline) THEN "completed"
                             ELSE "ready"
              ELSE /\ j \in DOMAIN load_jobs'
                   /\ load_jobs'[j].current_step = k ]_vars

\* C15: the status of every job in the store is ready, waiting or completed;
\* processing and error, which the status display has icons for, are never
\* stored.
C15_StatusDomain ==
    \A j \in DOMAIN load_jobs :
        load_jobs[j].status \in {"ready", "waiting", "completed"}

\* Each of the three statuses has been stored: one job is completed, and
\* another, set back to ready when its first step was completed, waits for
\* the notebook of its second step.
C15_Witness ==
    \E j \in DOMAIN load_jobs, i \in DOMAIN load_jobs :
        /\ load_jobs[j].status = "completed"
        /\ load_jobs[i].status = "waiting"
        /\ load_jobs[i].current_step > 0

\* C16: a job stored as waiting is still stored as waiting after every call
\* of every operation, except a call of mark_step_complete on that job.
C16_WaitingUntilAdvance ==
    [][ \A j \in DOMAIN load_jobs :
          load_jobs[j].status = "waiting" =>
             \/ advanced(j)
             \/ /\ j \in DOMAIN load_jobs'
                /\ load_jobs'[j].status = "waiting" ]_vars

\* C17: the record of a completed job is the same after every call of every
\* operation; in particular generate_colab_links does not make it waiting.
C17_CompletedTerminal ==
    [][ \A j \in DOMAIN load_jobs :
          load_jobs[j].status = "completed" =>
             /\ j \in DOMAIN load_jobs'
             /\ load_jobs'[j] = load_jobs[j] ]_vars

\* C18: the id, created, pipeline, files.input and parameters stored under an
\* id are the same after every call of every operation, and a call of
\* get_job_status or download_result leaves the store as it was and does not
\* write it.
C18_CreationFieldsFixed ==
    [][ /\ \A j \in DOMAIN load_jobs :
             /\ j \in DOMAIN load_jobs'
             /\ load_jobs'[j].id = load_jobs[j].id
             /\ load_jobs'[j].created = load_jobs[j].created
             /\ load_jobs'[j].pipeline = load_jobs[j].pipeline
             /\ load_jobs'[j].files.input = load_jobs[j].files.input
             /\ load_jobs'[j].parameters = load_jobs[j].parameters
        /\ ret'.op \in {"get_job_status", "download_result"} =>
             /\ jobs_file' = jobs_file
             /\ ~ret'.saved ]_vars

\* C19: when calls do not overlap, a call of generate_colab_links or
\* mark_step_complete on job j leaves the store with the same ids, and the
\* record under every id other than j is the same after the call as before.
C19_OnlyOwnRecord ==
    [][ ret'.op \in {"generate_colab_links", "mark_step_complete"} =>
          /\ DOMAIN load_jobs' = DOMAIN load_jobs
          /\ \A i \in DOMAIN load_jobs \ {ret'.arg} :
                load_jobs'[i] = load_jobs[i] ]_vars

\* A call on one job has just saved the store while another job, with a link
\* issued, is in it.
C19_Witness ==
    /\ ret.op \in {"generate_colab_links", "mark_step_complete"}
    /\ ret.saved
    /\ \E i \in DOMAIN load_jobs \ {ret.arg} : load_jobs[i].status = "waiting"

\* C20: when mark_step_complete keeps being called on every job, each job in
\* the store, whatever the length of its pipeline, is at some later time
\* stored as completed, however many other calls come in between.
C20_EventuallyCompleted ==
    \A j \in JobIds :
        (j \in DOMAIN load_jobs)
          ~> (j \in DOMAIN load_jobs /\ load_jobs[j].status = "completed")

====
